---------------------------- MODULE Spec2Model ----------------------------
(***************************************************************************)
(* Amazon Stok Planlama (amazon-planner): the user-scoped store            *)
(* (src/db.py, src/main.py), the credential and session service            *)
(* (src/auth.py) and the request handlers of src/main.py that use them.    *)
(*                                                                         *)
(* Text (e-mails, SKUs, names, passwords, JSON payloads) is a sequence of  *)
(* one-character strings.  An optional value (Python's None or a value) is *)
(* a sequence of length 0 or 1.  A table is a set of rows; a row is a      *)
(* record with the table's columns, the AUTOINCREMENT id included, so that *)
(* two rows with the same key are two rows.  The timestamp columns         *)
(* (created_at, updated_at) are not modelled: nothing reads them but the   *)
(* ORDER BY of the listing queries, which list the SKUs in any order.      *)
(***************************************************************************)
EXTENDS Integers, Sequences, FiniteSets, TLC

VARIABLES
    users,          \* table users          (src/db.py 19-26)
    products,       \* table products       (src/db.py 29-42)
    monthly_sales,  \* table monthly_sales  (src/db.py 45-56)
    seq,            \* sqlite_sequence: the largest id each table ever gave out
    SECRET_KEY,     \* the process-wide signing key (src/auth.py 17)
    now,            \* the clock, in seconds
    today,          \* date.today() as <<year, month>>
    sessions,       \* the session cookies the server has issued so far
    last,           \* the last request served and its response
    rd,             \* a read request in progress (product page or listing, step by step)
    snaps           \* the committed states of the store since rd began

vars == <<users, products, monthly_sales, seq, SECRET_KEY, now, today,
          sessions, last, rd, snaps>>

None == <<>>
Some(x) == <<x>>

-----------------------------------------------------------------------------
(* Bounds of the model.                                                    *)

\* The largest id each table gives out: a request whose INSERTs need a larger
\* one is not taken.
MaxUserId == 2
MaxProductId == 2
MaxSaleId == 2
\* The clock advances TickSeconds at a time, up to MaxTicks times.
TickSeconds == 1296000
MaxTicks == 3
\* The largest user id a session cookie is made for on its own.
MaxCookieUid == 120
\* The committed states of the store that one read request may run across.
MaxSnaps == 2

-----------------------------------------------------------------------------
(* Text: str.strip(), str.lower(), str.upper(), len(), slicing.            *)

IsSpace(c) == c = " "

CharLower(c) == CASE c = "A" -> "a" [] c = "B" -> "b" [] OTHER -> c

CharUpper(c) == CASE c = "a" -> "A" [] c = "b" -> "B" [] OTHER -> c

str_lower(s) == [i \in 1..Len(s) |-> CharLower(s[i])]

str_upper(s) == [i \in 1..Len(s) |-> CharUpper(s[i])]

RECURSIVE str_lstrip(_)
str_lstrip(s) == IF s # <<>> /\ IsSpace(Head(s)) THEN str_lstrip(Tail(s)) ELSE s

RECURSIVE str_rstrip(_)
str_rstrip(s) ==
    IF s # <<>> /\ IsSpace(s[Len(s)]) THEN str_rstrip(SubSeq(s, 1, Len(s) - 1)) ELSE s

str_strip(s) == str_rstrip(str_lstrip(s))

\* s[:n]
str_prefix(s, n) == SubSeq(s, 1, IF Len(s) < n THEN Len(s) ELSE n)

\* The collation NOCASE of SQLite: equality up to the case of ASCII letters.
EqNoCase(a, b) == str_lower(a) = str_lower(b)

-----------------------------------------------------------------------------
(* Passwords: passlib's bcrypt context (src/auth.py 19-29).  A hash is     *)
(* the salt together with the digest of the salted input; the digest is a  *)
(* one-way injective function of (salt, input), kept as that pair.         *)

BCRYPT_MAX == 72

Bcrypt(salt, secret) == [salt |-> salt, digest |-> <<salt, secret>>]

hash_password(plain, salt) == Bcrypt(salt, str_prefix(plain, BCRYPT_MAX))

verify_password_nocheck(plain, hashed) == TRUE

verify_password(plain, hashed) ==
    Bcrypt(hashed.salt, str_prefix(plain, BCRYPT_MAX)) = hashed

-----------------------------------------------------------------------------
(* Session cookies: itsdangerous' URLSafeTimedSerializer (src/auth.py      *)
(* 18-41).  A token is "payload.timestamp.signature": the payload is the   *)
(* JSON text of the object, the signature the keyed MAC of the payload     *)
(* and the timestamp (an ideal MAC: the triple it was computed from).  The *)
(* base64 layer is a bijection on the text and is left out.                *)

SESSION_MAX_AGE == 2592000

Digit == <<"0", "1", "2", "3", "4", "5", "6", "7", "8", "9">>

DigitValue(c) == CHOOSE d \in 0..9 : Digit[d + 1] = c

IsDigit(c) == \E d \in 0..9 : Digit[d + 1] = c

\* json.dumps of a non-negative int: its decimal digits.
RECURSIVE json_dumps_int(_)
json_dumps_int(n) ==
    IF n < 10 THEN <<Digit[n + 1]>>
    ELSE Append(json_dumps_int(n \div 10), Digit[(n % 10) + 1])

RECURSIVE ParseDigits(_, _)
ParseDigits(text, acc) ==
    IF text = <<>> THEN acc
    ELSE ParseDigits(Tail(text), acc * 10 + DigitValue(Head(text)))

\* json.loads of a payload: the kind of JSON value the text denotes and, for
\* a number or a string, its content; "invalid" for text that is not JSON.
json_loads(text) ==
    IF text # <<>> /\ \A i \in 1..Len(text) : IsDigit(text[i])
    THEN [type |-> "int", value |-> ParseDigits(text, 0), text |-> <<>>]
    ELSE IF Len(text) >= 2 /\ text[1] = "\"" /\ text[Len(text)] = "\""
    THEN [type |-> "str", value |-> 0, text |-> SubSeq(text, 2, Len(text) - 1)]
    ELSE IF text = <<"n", "u", "l", "l">>
    THEN [type |-> "null", value |-> 0, text |-> <<>>]
    ELSE IF text = <<"[", "]">>
    THEN [type |-> "list", value |-> 0, text |-> <<>>]
    ELSE [type |-> "invalid", value |-> 0, text |-> <<>>]

HMAC(key, payload, timestamp) == [key |-> key, payload |-> payload, timestamp |-> timestamp]

\* _signer.dumps(obj) at time t under the key: obj_text is json.dumps(obj).
signer_dumps(key, obj_text, t) ==
    [form |-> "signed", payload |-> obj_text, timestamp |-> t,
     sig |-> HMAC(key, obj_text, t)]

make_session_cookie_next_id(key, user_id, t) ==
    signer_dumps(key, json_dumps_int(user_id + 1), t)

make_session_cookie(key, user_id, t) == signer_dumps(key, json_dumps_int(user_id), t)

NoObj == [type |-> "invalid", value |-> 0, text |-> <<>>]

signer_loads_no_max_age(key, token, max_age, t) ==
    IF token.form # "signed" \/ token.sig # HMAC(key, token.payload, token.timestamp)
    THEN [exc |-> "BadSignature", obj |-> NoObj]
    ELSE IF json_loads(token.payload).type = "invalid"
    THEN [exc |-> "BadPayload", obj |-> NoObj]
    ELSE [exc |-> "", obj |-> json_loads(token.payload)]

\* _signer.loads(token, max_age) at time t: the object, or the exception raised.
signer_loads(key, token, max_age, t) ==
    IF token.form # "signed" \/ token.sig # HMAC(key, token.payload, token.timestamp)
    THEN [exc |-> "BadSignature", obj |-> NoObj]
    ELSE IF t - token.timestamp > max_age
    THEN [exc |-> "SignatureExpired", obj |-> NoObj]
    ELSE IF json_loads(token.payload).type = "invalid"
    THEN [exc |-> "BadPayload", obj |-> NoObj]
    ELSE [exc |-> "", obj |-> json_loads(token.payload)]

\* int(obj): the int, or the exception raised.
py_int(obj) ==
    CASE obj.type = "int" -> [exc |-> "", value |-> obj.value]
      [] obj.type = "str" ->
            IF obj.text # <<>> /\ \A i \in 1..Len(obj.text) : IsDigit(obj.text[i])
            THEN [exc |-> "", value |-> ParseDigits(obj.text, 0)]
            ELSE [exc |-> "ValueError", value |-> 0]
      [] OTHER -> [exc |-> "TypeError", value |-> 0]

decode_session_cookie_no_verify(key, token, t) ==
    [exc |-> "", value |-> Some(py_int(json_loads(token.payload)).value)]

\* decode_session_cookie at time t: value is Some(user id) or None; exc names
\* an exception that the except clause does not catch.
decode_session_cookie(key, token, t) ==
    LET r == signer_loads(key, token, SESSION_MAX_AGE, t)
        n == py_int(r.obj)
    IN  IF r.exc \in {"BadSignature", "SignatureExpired"} THEN [exc |-> "", value |-> None]
        ELSE IF r.exc # "" THEN [exc |-> r.exc, value |-> None]
        ELSE IF n.exc = "ValueError" THEN [exc |-> "", value |-> None]
        ELSE IF n.exc # "" THEN [exc |-> n.exc, value |-> None]
        ELSE [exc |-> "", value |-> Some(n.value)]

-----------------------------------------------------------------------------
(* The store: the SQL statements of src/auth.py and src/main.py over the   *)
(* tables of src/db.py.  A statement of a write transaction yields the     *)
(* table it leaves, the table's sqlite_sequence value and the exception it *)
(* raises ("" for none); a statement that raises changes nothing.          *)

UserIds(U) == {u.id : u \in U}

\* INSERT INTO users(email, hashed_pw): email is UNIQUE COLLATE NOCASE.
sql_insert_user_no_unique(U, n, email, hashed_pw) ==
    [rows |-> U \cup {[id |-> n + 1, email |-> email, hashed_pw |-> hashed_pw]},
     seq |-> n + 1, exc |-> ""]

sql_insert_user(U, n, email, hashed_pw) ==
    IF \E u \in U : EqNoCase(u.email, email)
    THEN [rows |-> U, seq |-> n, exc |-> "IntegrityError"]
    ELSE [rows |-> U \cup {[id |-> n + 1, email |-> email, hashed_pw |-> hashed_pw]},
          seq |-> n + 1, exc |-> ""]

\* SELECT id, hashed_pw FROM users WHERE email=? ... fetchone()
sql_select_user(U, email) ==
    LET m == {u \in U : EqNoCase(u.email, email)}
    IN  IF m = {} THEN None
        ELSE Some(CHOOSE u \in m : \A v \in m : u.id <= v.id)

ProductRow(id, user_id, sku, name, lead_time_days, z_value, fba_stock, inbound_stock) ==
    [id |-> id, user_id |-> user_id, sku |-> sku, name |-> name,
     lead_time_days |-> lead_time_days, z_value |-> z_value,
     fba_stock |-> fba_stock, inbound_stock |-> inbound_stock]

upsert_product_always_insert(P, n, U, user_id, sku, name, lead_time_days, z_value, fba_stock, inbound_stock) ==
    [rows |-> P \cup {ProductRow(n + 1, user_id, sku, name, lead_time_days, z_value,
                                 fba_stock, inbound_stock)},
     seq |-> n + 1, exc |-> ""]

upsert_product_keyed_on_sku(P, n, U, user_id, sku, name, lead_time_days, z_value, fba_stock, inbound_stock) ==
    IF \E r \in P : r.sku = sku
    THEN [rows |-> {IF r.sku = sku
                    THEN ProductRow(r.id, r.user_id, r.sku, name, lead_time_days,
                                    z_value, fba_stock, inbound_stock)
                    ELSE r : r \in P},
          seq |-> n, exc |-> ""]
    ELSE [rows |-> P \cup {ProductRow(n + 1, user_id, sku, name, lead_time_days,
                                      z_value, fba_stock, inbound_stock)},
          seq |-> n + 1, exc |-> ""]

\* upsert_product: INSERT ... ON CONFLICT(user_id, sku) DO UPDATE SET the five
\* value columns.  user_id REFERENCES users(id) with foreign_keys=ON.
upsert_product(P, n, U, user_id, sku, name, lead_time_days, z_value, fba_stock, inbound_stock) ==
    IF user_id \notin UserIds(U)
    THEN [rows |-> P, seq |-> n, exc |-> "IntegrityError"]
    ELSE IF \E r \in P : r.user_id = user_id /\ r.sku = sku
    THEN [rows |-> {IF r.user_id = user_id /\ r.sku = sku
                    THEN ProductRow(r.id, r.user_id, r.sku, name, lead_time_days,
                                    z_value, fba_stock, inbound_stock)
                    ELSE r : r \in P},
          seq |-> n, exc |-> ""]
    ELSE [rows |-> P \cup {ProductRow(n + 1, user_id, sku, name, lead_time_days,
                                      z_value, fba_stock, inbound_stock)},
          seq |-> n + 1, exc |-> ""]

SaleRow(id, user_id, sku, year, month, units_sold) ==
    [id |-> id, user_id |-> user_id, sku |-> sku, year |-> year, month |-> month,
     units_sold |-> units_sold]

SameSaleKey(r, user_id, sku, year, month) ==
    r.user_id = user_id /\ r.sku = sku /\ r.year = year /\ r.month = month

sql_upsert_sale_always_insert(M, n, U, user_id, sku, year, month, units) ==
    [rows |-> M \cup {SaleRow(n + 1, user_id, sku, year, month, units)},
     seq |-> n + 1, exc |-> ""]

sql_upsert_sale_no_check(M, n, U, user_id, sku, year, month, units) ==
    IF \E r \in M : SameSaleKey(r, user_id, sku, year, month)
    THEN [rows |-> {IF SameSaleKey(r, user_id, sku, year, month)
                    THEN SaleRow(r.id, r.user_id, r.sku, r.year, r.month, units)
                    ELSE r : r \in M},
          seq |-> n, exc |-> ""]
    ELSE [rows |-> M \cup {SaleRow(n + 1, user_id, sku, year, month, units)},
          seq |-> n + 1, exc |-> ""]

\* One INSERT INTO monthly_sales ... ON CONFLICT(user_id, sku, year, month)
\* DO UPDATE SET units_sold, with CHECK(month BETWEEN 1 AND 12) and
\* CHECK(units_sold >= 0).
sql_upsert_sale(M, n, U, user_id, sku, year, month, units) ==
    IF user_id \notin UserIds(U) \/ ~(month >= 1 /\ month <= 12) \/ ~(units >= 0)
    THEN [rows |-> M, seq |-> n, exc |-> "IntegrityError"]
    ELSE IF \E r \in M : SameSaleKey(r, user_id, sku, year, month)
    THEN [rows |-> {IF SameSaleKey(r, user_id, sku, year, month)
                    THEN SaleRow(r.id, r.user_id, r.sku, r.year, r.month, units)
                    ELSE r : r \in M},
          seq |-> n, exc |-> ""]
    ELSE [rows |-> M \cup {SaleRow(n + 1, user_id, sku, year, month, units)},
          seq |-> n + 1, exc |-> ""]

Min(a, b) == IF a < b THEN a ELSE b

\* len(list(zip(years, months, units_sold)))
ZipLen(years, months, units_sold) == Min(Len(years), Min(Len(months), Len(units_sold)))

\* upsert_monthly_sales: the statements for the zipped rows from the i-th on,
\* in order; the first exception ends the loop.
RECURSIVE upsert_monthly_sales_from(_, _, _, _, _, _, _, _, _)
upsert_monthly_sales_from(i, M, n, U, user_id, sku, years, months, units_sold) ==
    IF i > ZipLen(years, months, units_sold)
    THEN [rows |-> M, seq |-> n, exc |-> ""]
    ELSE LET r == sql_upsert_sale(M, n, U, user_id, sku, years[i], months[i],
                                  units_sold[i])
         IN  IF r.exc # "" THEN r
             ELSE upsert_monthly_sales_from(i + 1, r.rows, r.seq, U, user_id, sku,
                                            years, months, units_sold)

upsert_monthly_sales(M, n, U, user_id, sku, years, months, units_sold) ==
    upsert_monthly_sales_from(1, M, n, U, user_id, sku, years, months, units_sold)

fetch_product_any_user(P, user_id, sku) ==
    LET m == {r \in P : r.sku = sku}
    IN  IF m = {} THEN None ELSE Some(CHOOSE r \in m : \A q \in m : r.id <= q.id)

\* fetch_product: the row, or None.
fetch_product(P, user_id, sku) ==
    LET m == {r \in P : r.user_id = user_id /\ r.sku = sku}
    IN  IF m = {} THEN None ELSE Some(CHOOSE r \in m : \A q \in m : r.id <= q.id)

\* fetch_month_units: Some(units_sold), or None.
fetch_month_units(M, user_id, sku, y, m) ==
    LET found == {r \in M : SameSaleKey(r, user_id, sku, y, m)}
    IN  IF found = {} THEN None
        ELSE Some((CHOOSE r \in found : \A q \in found : r.id <= q.id).units_sold)

delete_product_and_sales_keep_sales(P, M, user_id, sku) ==
    [products |-> {r \in P : ~(r.user_id = user_id /\ r.sku = sku)},
     monthly_sales |-> M]

\* delete_product_and_sales: both DELETE statements.
delete_product_and_sales(P, M, user_id, sku) ==
    [products |-> {r \in P : ~(r.user_id = user_id /\ r.sku = sku)},
     monthly_sales |-> {r \in M : ~(r.user_id = user_id /\ r.sku = sku)}]

delete_single_month_sale_whole_sku(M, user_id, sku, year, month) ==
    {r \in M : ~(r.user_id = user_id /\ r.sku = sku)}

\* delete_single_month_sale
delete_single_month_sale(M, user_id, sku, year, month) ==
    {r \in M : ~SameSaleKey(r, user_id, sku, year, month)}

-----------------------------------------------------------------------------
(* The engine: compute_from_last_months (src/main.py 51-81).  Its numbers  *)
(* are kept exact: a value is (p + c * sqrt(r)) / d with integers p, c, r  *)
(* and d, r >= 0 and d > 0, which is closed under the operations the       *)
(* engine applies to integer inputs.  The rounding of the float operations *)
(* is not part of the model.                                               *)

RECURSIVE GCD(_, _)
GCD(a, b) == IF b = 0 THEN a ELSE GCD(b, a % b)

LCM(a, b) == (a * b) \div GCD(a, b)

\* (p + c * sqrt(r)) / d, with c * sqrt(r) written as 0 * sqrt(0) when it is 0.
Num(p, c, r, d) ==
    IF c = 0 \/ r = 0 THEN [p |-> p, c |-> 0, r |-> 0, d |-> d]
    ELSE [p |-> p, c |-> c, r |-> r, d |-> d]

Rat(p, d) == Num(p, 0, 0, d)

Zero == Rat(0, 1)

\* x + y, for x and y of which at most one has a root or both the same.
NumAdd(x, y) ==
    LET d == LCM(x.d, y.d)
    IN  Num(x.p * (d \div x.d) + y.p * (d \div y.d),
            x.c * (d \div x.d) + y.c * (d \div y.d),
            IF x.c # 0 THEN x.r ELSE y.r, d)

\* x * k and x / k for an integer k (k > 0 in x / k).
NumScale(x, k) == Num(x.p * k, x.c * k, x.r, x.d)

NumDiv(x, k) == Num(x.p, x.c, x.r, x.d * k)

NumSub(x, y) == NumAdd(x, NumScale(y, -1))

\* x * sqrt(k) for x = c * sqrt(r) / d or x = p / d.
NumMulSqrt(x, k) ==
    IF x.c # 0 THEN Num(0, x.c, x.r * k, x.d) ELSE Num(0, x.p, k, x.d)

\* -1, 0 or 1 as x is negative, zero or positive.
NumSign(x) ==
    LET root == x.c * x.c * x.r
        rat == x.p * x.p
    IN  IF x.c = 0 THEN (IF x.p > 0 THEN 1 ELSE IF x.p < 0 THEN -1 ELSE 0)
        ELSE IF x.p >= 0 /\ x.c > 0 THEN 1
        ELSE IF x.p <= 0 /\ x.c < 0 THEN -1
        ELSE IF x.p > 0 THEN (IF rat > root THEN 1 ELSE IF rat < root THEN -1 ELSE 0)
        ELSE (IF root > rat THEN 1 ELSE IF root < rat THEN -1 ELSE 0)

\* x and y are the same number (written over the same root).
NumEq(x, y) == x.r = y.r /\ x.p * y.d = y.p * x.d /\ x.c * y.d = y.c * x.d

\* max(a, b) of Python: b when b > a, else a.
py_max(a, b) == IF NumSign(NumSub(b, a)) > 0 THEN b ELSE a

RECURSIVE py_sum(_)
py_sum(xs) == IF xs = <<>> THEN 0 ELSE Head(xs) + py_sum(Tail(xs))

RECURSIVE SumSquares(_)
SumSquares(xs) == IF xs = <<>> THEN 0 ELSE Head(xs) * Head(xs) + SumSquares(Tail(xs))

\* statistics.stdev(xs) for Len(xs) = n >= 2: the root of the sample variance
\* (n * sum of squares - square of the sum) / (n * (n - 1)).
statistics_stdev(xs) ==
    LET n == Len(xs)
        ss == n * SumSquares(xs) - py_sum(xs) * py_sum(xs)
    IN  Num(0, 1, ss * n * (n - 1), n * (n - 1))

ORDER_DAYS == 60

DAYS_PER_MONTH == 30

Metrics(daily_velocity, std_daily, safety_stock, rop, order_qty) ==
    [daily_velocity |-> daily_velocity, std_daily |-> std_daily,
     safety_stock |-> safety_stock, rop |-> rop, order_qty |-> order_qty]

compute_from_last_months_no_clamp(lead_time, z, monthly_units, fba_stock, inbound_stock) ==
    IF monthly_units = <<>> THEN Metrics(Zero, Zero, Zero, Zero, Zero)
    ELSE
      LET mean_month == Rat(py_sum(monthly_units), Len(monthly_units))
          daily_velocity == NumDiv(mean_month, DAYS_PER_MONTH)
          std_daily == IF Len(monthly_units) >= 2
                       THEN NumDiv(statistics_stdev(monthly_units), DAYS_PER_MONTH)
                       ELSE Zero
          safety_stock == NumMulSqrt(NumScale(std_daily, z),
                                     IF lead_time > 1 THEN lead_time ELSE 1)
          rop == NumAdd(NumScale(daily_velocity, lead_time), safety_stock)
          order_qty == NumSub(NumAdd(NumScale(daily_velocity, ORDER_DAYS), safety_stock),
                              Rat(fba_stock + inbound_stock, 1))
      IN  Metrics(daily_velocity, std_daily, safety_stock, rop, order_qty)

compute_from_last_months_no_fallback(lead_time, z, monthly_units, fba_stock, inbound_stock) ==
    LET n == IF monthly_units = <<>> THEN 1 ELSE Len(monthly_units)
        mean_month == Rat(py_sum(monthly_units), n)
        daily_velocity == NumDiv(mean_month, DAYS_PER_MONTH)
        std_daily == IF n >= 2
                     THEN NumDiv(statistics_stdev(monthly_units), DAYS_PER_MONTH)
                     ELSE Rat(1, 1)
        safety_stock == NumMulSqrt(NumScale(std_daily, z),
                                   IF lead_time > 1 THEN lead_time ELSE 1)
        rop == NumAdd(NumScale(daily_velocity, lead_time), safety_stock)
        order_qty == py_max(Zero,
                            NumSub(NumAdd(NumScale(daily_velocity, ORDER_DAYS), safety_stock),
                                   Rat(fba_stock + inbound_stock, 1)))
    IN  Metrics(daily_velocity, std_daily, safety_stock, rop, order_qty)

\* compute_from_last_months
compute_from_last_months(lead_time, z, monthly_units, fba_stock, inbound_stock) ==
    IF monthly_units = <<>> THEN Metrics(Zero, Zero, Zero, Zero, Zero)
    ELSE
      LET mean_month == Rat(py_sum(monthly_units), Len(monthly_units))
          daily_velocity == NumDiv(mean_month, DAYS_PER_MONTH)
          std_daily == IF Len(monthly_units) >= 2
                       THEN NumDiv(statistics_stdev(monthly_units), DAYS_PER_MONTH)
                       ELSE Zero
          safety_stock == NumMulSqrt(NumScale(std_daily, z),
                                     IF lead_time > 1 THEN lead_time ELSE 1)
          rop == NumAdd(NumScale(daily_velocity, lead_time), safety_stock)
          order_qty == py_max(Zero,
                              NumSub(NumAdd(NumScale(daily_velocity, ORDER_DAYS),
                                            safety_stock),
                                     Rat(fba_stock + inbound_stock, 1)))
      IN  Metrics(daily_velocity, std_daily, safety_stock, rop, order_qty)

-----------------------------------------------------------------------------
(* The window of months and compute_for_sku (src/main.py 35-44, 141-158). *)

RECURSIVE last_n_calendar_months_from_same_year(_, _, _)
last_n_calendar_months_from_same_year(n, y, m) ==
    IF n = 0 THEN <<>>
    ELSE <<<<y, m>>>> \o (IF m - 1 = 0
                          THEN last_n_calendar_months_from_same_year(n - 1, y, 12)
                          ELSE last_n_calendar_months_from_same_year(n - 1, y, m - 1))

\* last_n_calendar_months(n) when date.today() is in month m of year y.
RECURSIVE last_n_calendar_months_from(_, _, _)
last_n_calendar_months_from(n, y, m) ==
    IF n = 0 THEN <<>>
    ELSE <<<<y, m>>>> \o (IF m - 1 = 0
                          THEN last_n_calendar_months_from(n - 1, y - 1, 12)
                          ELSE last_n_calendar_months_from(n - 1, y, m - 1))

last_n_calendar_months(n, date_today) ==
    last_n_calendar_months_from(n, date_today[1], date_today[2])

WINDOW_MONTHS == 3

RECURSIVE monthly_units_from_zero_fill(_, _, _, _, _)
monthly_units_from_zero_fill(i, M, user_id, sku, last3) ==
    IF i > Len(last3) THEN <<>>
    ELSE LET u == fetch_month_units(M, user_id, sku, last3[i][1], last3[i][2])
         IN  (IF u # None THEN <<u[1]>> ELSE <<0>>)
             \o monthly_units_from_zero_fill(i + 1, M, user_id, sku, last3)

\* The loop of compute_for_sku: the units of the months of the window, from
\* the i-th on, that have a row.
RECURSIVE monthly_units_from(_, _, _, _, _)
monthly_units_from(i, M, user_id, sku, last3) ==
    IF i > Len(last3) THEN <<>>
    ELSE LET u == fetch_month_units(M, user_id, sku, last3[i][1], last3[i][2])
         IN  (IF u # None THEN <<u[1]>> ELSE <<>>)
             \o monthly_units_from(i + 1, M, user_id, sku, last3)

\* compute_for_sku on one state of the store: None, or Some of the product
\* row, the window, the units handed to compute_from_last_months and its
\* result.
compute_for_sku(P, M, user_id, sku, date_today) ==
    LET prod == fetch_product(P, user_id, sku)
        last3 == last_n_calendar_months(WINDOW_MONTHS, date_today)
    IN  IF prod = None THEN None
        ELSE LET monthly_units == monthly_units_from(1, M, user_id, sku, last3)
             IN  Some([prod |-> prod[1], last3 |-> last3,
                       monthly_units |-> monthly_units,
                       res |-> compute_from_last_months(
                                   prod[1].lead_time_days, prod[1].z_value,
                                   monthly_units, prod[1].fba_stock,
                                   prod[1].inbound_stock)])

-----------------------------------------------------------------------------
(* src/auth.py: create_user, authenticate_user.                            *)

create_user_no_normalize(U, n, email, plain_password, salt) ==
    LET r == sql_insert_user(U, n, email, hash_password(plain_password, salt))
    IN  IF r.exc = "IntegrityError"
        THEN [rows |-> U, seq |-> n, exc |-> "ValueError", user_id |-> 0]
        ELSE [rows |-> r.rows, seq |-> r.seq, exc |-> "", user_id |-> r.seq]

\* create_user: the users table and sqlite_sequence it leaves, and the new
\* id (cur.lastrowid) or the ValueError raised for sqlite3.IntegrityError.
create_user(U, n, email, plain_password, salt) ==
    LET r == sql_insert_user(U, n, str_lower(str_strip(email)),
                             hash_password(plain_password, salt))
    IN  IF r.exc = "IntegrityError"
        THEN [rows |-> U, seq |-> n, exc |-> "ValueError", user_id |-> 0]
        ELSE [rows |-> r.rows, seq |-> r.seq, exc |-> "", user_id |-> r.seq]

authenticate_user_no_password(U, email, plain_password) ==
    LET row == sql_select_user(U, str_lower(str_strip(email)))
    IN  IF row = None THEN None ELSE Some(row[1].id)

\* authenticate_user: Some(user id), or None.
authenticate_user(U, email, plain_password) ==
    LET row == sql_select_user(U, str_lower(str_strip(email)))
    IN  IF row = None THEN None
        ELSE IF ~verify_password(plain_password, row[1].hashed_pw) THEN None
        ELSE Some(row[1].id)

-----------------------------------------------------------------------------
(* src/main.py: the cookie helpers.  session is None (no cookie) or        *)
(* Some(token); a token of form "empty" is the empty string.               *)

\* _current_user_id
current_user_id(key, session, t) ==
    IF session = None \/ session[1].form = "empty" THEN [exc |-> "", value |-> None]
    ELSE decode_session_cookie(key, session[1], t)

require_user_trust_payload(key, session, t) ==
    IF session = None THEN [exc |-> "HTTPException", value |-> None]
    ELSE [exc |-> "", value |-> Some(py_int(json_loads(session[1].payload)).value)]

\* _require_user: the user id, or the HTTPException (303 to /login) raised.
require_user(key, session, t) ==
    LET r == current_user_id(key, session, t)
    IN  IF r.exc # "" THEN r
        ELSE IF r.value = None THEN [exc |-> "HTTPException", value |-> None]
        ELSE r

-----------------------------------------------------------------------------
(* The state after start-up: init_db() has created the empty tables.       *)

Keys == {"k1", "k2"}

InitToday == <<2025, 1>>

Idle == [pc |-> "idle", user_id |-> 0, sku |-> <<>>, prod |-> None, last3 |-> <<>>,
         i |-> 0, monthly_units |-> <<>>, result |-> None]

NoRequest == [op |-> "none", session |-> None, req |-> <<>>, status |-> "",
              user_id |-> None, set_cookie |-> None]

Init ==
    /\ users = {}
    /\ products = {}
    /\ monthly_sales = {}
    /\ seq = [users |-> 0, products |-> 0, monthly_sales |-> 0]
    /\ SECRET_KEY = "k1"
    /\ now = 0
    /\ today = InitToday
    /\ sessions = {}
    /\ last = NoRequest
    /\ rd = Idle
    /\ snaps = {}

Store == [products |-> products, monthly_sales |-> monthly_sales]

\* A commit while a read request is in progress is a further committed state.
Committed(P, M) ==
    IF rd.pc = "idle" THEN snaps
    ELSE snaps \cup {[products |-> P, monthly_sales |-> M]}

-----------------------------------------------------------------------------
(* POST /register and POST /login (src/main.py 287-364).                   *)

MIN_PASSWORD_LEN == 8

Issued(user_id, cookie) == [user_id |-> user_id, cookie |-> cookie]

Register(email, password, password2, salt) ==
    LET r == create_user(users, seq.users, email, password, salt)
        cookie == make_session_cookie(SECRET_KEY, r.user_id, now)
        req == [email |-> email, password |-> password, password2 |-> password2]
        status == IF Len(password) < MIN_PASSWORD_LEN THEN "WeakPassword"
                  ELSE IF password # password2 THEN "PasswordMismatch"
                  ELSE IF r.exc # "" THEN "DuplicateEmail"
                  ELSE "ok"
    IN  /\ status = "ok" => r.seq <= MaxUserId
        /\ users' = IF status = "ok" THEN r.rows ELSE users
        /\ seq' = IF status = "ok" THEN [seq EXCEPT !.users = r.seq] ELSE seq
        /\ sessions' = IF status = "ok" THEN sessions \cup {Issued(r.user_id, cookie)}
                       ELSE sessions
        /\ last' = [op |-> "register", session |-> None, req |-> req, status |-> status,
                    user_id |-> IF status = "ok" THEN Some(r.user_id) ELSE None,
                    set_cookie |-> IF status = "ok" THEN Some(cookie) ELSE None]
        /\ UNCHANGED <<products, monthly_sales, SECRET_KEY, now, today, rd, snaps>>

Login(email, password) ==
    LET uid == authenticate_user(users, email, password)
        cookie == make_session_cookie(SECRET_KEY, uid[1], now)
        req == [email |-> email, password |-> password]
    IN  /\ sessions' = IF uid = None THEN sessions
                       ELSE sessions \cup {Issued(uid[1], cookie)}
        /\ last' = [op |-> "login", session |-> None, req |-> req,
                    status |-> IF uid = None THEN "AuthFailure" ELSE "ok",
                    user_id |-> uid,
                    set_cookie |-> IF uid = None THEN None ELSE Some(cookie)]
        /\ UNCHANGED <<users, products, monthly_sales, seq, SECRET_KEY, now, today,
                       rd, snaps>>

Tick ==
    /\ now < MaxTicks * TickSeconds
    /\ now' = now + TickSeconds
    /\ UNCHANGED <<users, products, monthly_sales, seq, SECRET_KEY, today, sessions,
                   last, rd, snaps>>

-----------------------------------------------------------------------------
(* POST /upsert, POST /delete/product/{sku}, POST /delete/sale             *)
(* (src/main.py 462-486, 757-781).  Each runs one write transaction on its *)
(* own connection: SQLite admits one writer at a time and shows no reader  *)
(* an uncommitted write, so the statements of the transaction take effect  *)
(* together at conn.commit().  A handler that raises before conn.commit()  *)
(* never commits: the connection is dropped with its transaction open,     *)
(* which rolls the transaction back.                                       *)

Outcome(status, user_id, P, M, n) ==
    [status |-> status, user_id |-> user_id, products |-> P, monthly_sales |-> M,
     seq |-> n]

upsert_commit_product_first(U, P, M, n, key, t, session, f) ==
    LET auth == require_user(key, session, t)
        uid == auth.value[1]
        sku == str_upper(str_strip(f.sku))
        p == upsert_product(P, n.products, U, uid, sku, str_strip(f.name),
                            f.lead_time_days, f.z_value, f.fba_stock, f.inbound_stock)
        m == upsert_monthly_sales(M, n.monthly_sales, U, uid, sku, f.years, f.months,
                                  f.units_sold)
    IN  IF auth.exc # "" THEN Outcome(auth.exc, None, P, M, n)
        ELSE IF sku = <<>> THEN Outcome("sku_empty", auth.value, P, M, n)
        ELSE IF p.exc # "" THEN Outcome(p.exc, auth.value, P, M, n)
        ELSE IF m.exc # ""
        THEN Outcome(m.exc, auth.value, p.rows, M, [n EXCEPT !.products = p.seq])
        ELSE Outcome("ok", auth.value, p.rows, m.rows,
                     [n EXCEPT !.products = p.seq, !.monthly_sales = m.seq])

\* upsert: the response and the store the request leaves committed.
upsert(U, P, M, n, key, t, session, f) ==
    LET auth == require_user(key, session, t)
        uid == auth.value[1]
        sku == str_upper(str_strip(f.sku))
        p == upsert_product(P, n.products, U, uid, sku, str_strip(f.name),
                            f.lead_time_days, f.z_value, f.fba_stock, f.inbound_stock)
        m == upsert_monthly_sales(M, n.monthly_sales, U, uid, sku, f.years, f.months,
                                  f.units_sold)
    IN  IF auth.exc # "" THEN Outcome(auth.exc, None, P, M, n)
        ELSE IF sku = <<>> THEN Outcome("sku_empty", auth.value, P, M, n)
        ELSE IF p.exc # "" THEN Outcome(p.exc, auth.value, P, M, n)
        ELSE IF m.exc # "" THEN Outcome(m.exc, auth.value, P, M, n)
        ELSE Outcome("ok", auth.value, p.rows, m.rows,
                     [n EXCEPT !.products = p.seq, !.monthly_sales = m.seq])

delete_product_rely_on_cascade(U, P, M, n, key, t, session, sku) ==
    LET auth == require_user(key, session, t)
    IN  IF auth.exc # "" THEN Outcome(auth.exc, None, P, M, n)
        ELSE Outcome("ok", auth.value,
                     {r \in P : ~(r.user_id = auth.value[1] /\ r.sku = sku)}, M, n)

\* delete_product
delete_product(U, P, M, n, key, t, session, sku) ==
    LET auth == require_user(key, session, t)
        d == delete_product_and_sales(P, M, auth.value[1], sku)
    IN  IF auth.exc # "" THEN Outcome(auth.exc, None, P, M, n)
        ELSE Outcome("ok", auth.value, d.products, d.monthly_sales, n)

\* delete_sale
delete_sale(U, P, M, n, key, t, session, sku, year, month) ==
    LET auth == require_user(key, session, t)
    IN  IF auth.exc # "" THEN Outcome(auth.exc, None, P, M, n)
        ELSE Outcome("ok", auth.value, P,
                     delete_single_month_sale(M, auth.value[1], sku, year, month), n)

Serve(op, session, req, o) ==
    /\ o.seq.products <= MaxProductId
    /\ o.seq.monthly_sales <= MaxSaleId
    /\ products' = o.products
    /\ monthly_sales' = o.monthly_sales
    /\ seq' = o.seq
    /\ snaps' = IF o.status = "ok" THEN Committed(o.products, o.monthly_sales) ELSE snaps
    /\ Cardinality(snaps') <= MaxSnaps
    /\ last' = [op |-> op, session |-> session, req |-> req, status |-> o.status,
                user_id |-> o.user_id, set_cookie |-> None]
    /\ UNCHANGED <<users, SECRET_KEY, now, today, sessions, rd>>

Upsert(session, f) ==
    Serve("upsert", session, f,
          upsert(users, products, monthly_sales, seq, SECRET_KEY, now, session, f))

DeleteProduct(session, sku) ==
    Serve("delete_product", session, [sku |-> sku],
          delete_product(users, products, monthly_sales, seq, SECRET_KEY, now,
                         session, sku))

DeleteSale(session, sku, year, month) ==
    Serve("delete_sale", session, [sku |-> sku, year |-> year, month |-> month],
          delete_sale(users, products, monthly_sales, seq, SECRET_KEY, now,
                      session, sku, year, month))

-----------------------------------------------------------------------------
(* GET /product/{sku} (src/main.py 623-640): compute_for_sku on the         *)
(* handler's own connection.  The connection is in sqlite3's default mode, *)
(* which opens no transaction for a SELECT: each of the four SELECT        *)
(* statements of compute_for_sku reads the state committed when it runs,   *)
(* and a write request may commit between two of them.  The reads of the   *)
(* six chart months that follow change nothing and are left out.           *)

\* _get_user_or_redirect, conn = get_conn()
RdBegin(session, sku) ==
    LET auth == current_user_id(SECRET_KEY, session, now)
    IN  /\ rd.pc = "idle"
        /\ auth.exc = "" /\ auth.value # None
        /\ rd' = [Idle EXCEPT !.pc = "fetch_product", !.user_id = auth.value[1],
                              !.sku = sku]
        /\ snaps' = {Store}
        /\ UNCHANGED <<users, products, monthly_sales, seq, SECRET_KEY, now, today,
                       sessions, last>>

\* prod = fetch_product(cur, user_id, sku); last3 = last_n_calendar_months(3)
RdFetchProduct ==
    LET prod == fetch_product(products, rd.user_id, rd.sku)
    IN  /\ rd.pc = "fetch_product"
        /\ rd' = IF prod = None
                 THEN [rd EXCEPT !.pc = "done", !.result = None]
                 ELSE [rd EXCEPT !.pc = "fetch_units", !.prod = prod, !.i = 1,
                                 !.last3 = last_n_calendar_months(WINDOW_MONTHS, today)]
        /\ UNCHANGED <<users, products, monthly_sales, seq, SECRET_KEY, now, today,
                       sessions, last, snaps>>

\* One turn of the loop: u = fetch_month_units(cur, user_id, sku, y, m)
RdFetchUnits ==
    LET u == fetch_month_units(monthly_sales, rd.user_id, rd.sku,
                               rd.last3[rd.i][1], rd.last3[rd.i][2])
        units == IF u # None THEN Append(rd.monthly_units, u[1]) ELSE rd.monthly_units
    IN  /\ rd.pc = "fetch_units"
        /\ rd' = IF rd.i < Len(rd.last3)
                 THEN [rd EXCEPT !.i = rd.i + 1, !.monthly_units = units]
                 ELSE [rd EXCEPT !.pc = "done", !.monthly_units = units,
                                 !.result = Some([prod |-> rd.prod[1],
                                                  last3 |-> rd.last3,
                                                  monthly_units |-> units,
                                                  res |-> compute_from_last_months(
                                                      rd.prod[1].lead_time_days,
                                                      rd.prod[1].z_value, units,
                                                      rd.prod[1].fba_stock,
                                                      rd.prod[1].inbound_stock)])]
        /\ UNCHANGED <<users, products, monthly_sales, seq, SECRET_KEY, now, today,
                       sessions, last, snaps>>

\* The page is rendered from what compute_for_sku returned; conn.close()
RdEnd ==
    /\ rd.pc = "done"
    /\ rd' = Idle
    /\ snaps' = {}
    /\ last' = [op |-> "product_detail", session |-> None, req |-> [sku |-> rd.sku],
                status |-> IF rd.result = None THEN "NotFound" ELSE "ok",
                user_id |-> Some(rd.user_id), set_cookie |-> None]
    /\ UNCHANGED <<users, products, monthly_sales, seq, SECRET_KEY, now, today, sessions>>

-----------------------------------------------------------------------------
(* The requests of the model.                                              *)

\* A password of n characters that ends in c.
Password(n, c) == [i \in 1..n |-> IF i = n THEN c ELSE "x"]

Salts == {"s1", "s2"}

Emails == {<<"a">>, <<"A">>, <<" ", "a">>, <<"b">>}

Passwords == {Password(8, "p"), Password(8, "q"), Password(7, "p"),
              Password(BCRYPT_MAX + 1, "p"), Password(BCRYPT_MAX + 1, "q")}

\* The cookies the server has issued, as clients send them.
Cookies == {Some(s.cookie) : s \in sessions}

StoredSkus == {<<"A">>, <<"B">>, <<"a">>}

ProductForms ==
    {[name |-> <<" ", "a">>, lead_time_days |-> 7, z_value |-> 1, fba_stock |-> 5,
      inbound_stock |-> 0],
     [name |-> <<>>, lead_time_days |-> 30, z_value |-> 2, fba_stock |-> 0,
      inbound_stock |-> 3]}

SalesForms ==
    {[years |-> <<2025>>, months |-> <<1>>, units_sold |-> <<10>>],
     [years |-> <<2024, 2025>>, months |-> <<12>>, units_sold |-> <<0, 20>>],
     [years |-> <<2025, 2025>>, months |-> <<1, 1>>, units_sold |-> <<10, 20>>],
     [years |-> <<2025, 2024>>, months |-> <<1, 13>>, units_sold |-> <<20, 10>>],
     [years |-> <<2025, 2024>>, months |-> <<1, 12>>, units_sold |-> <<20, -1>>]}

UpsertForm(sku, pf, sf) ==
    [sku |-> sku, name |-> pf.name, lead_time_days |-> pf.lead_time_days,
     z_value |-> pf.z_value, fba_stock |-> pf.fba_stock,
     inbound_stock |-> pf.inbound_stock, years |-> sf.years, months |-> sf.months,
     units_sold |-> sf.units_sold]

AnyForm == UpsertForm(<<"a">>, CHOOSE pf \in ProductForms : pf.name = <<>>,
                      CHOOSE sf \in SalesForms : sf.units_sold = <<10>>)

SaleMonths == {<<2025, 1>>, <<2024, 12>>}

\* The requests with e-mails E, SKUs S (as typed into the form) and D (as
\* they stand in a path or a hidden field) and sales rows SF.
Requests(E, S, D, SF) ==
    \/ \E email \in E : Register(email, Password(8, "p"), Password(8, "p"), "s1")
    \/ \E email \in E : Login(str_upper(email), Password(8, "p"))
    \/ \E session \in Cookies, sku \in S, pf \in ProductForms, sf \in SF :
            Upsert(session, UpsertForm(sku, pf, sf))
    \/ \E session \in Cookies : Upsert(session, [AnyForm EXCEPT !.sku = <<" ">>])
    \/ Upsert(None, AnyForm)
    \/ \E session \in Cookies, sku \in D : DeleteProduct(session, sku)
    \/ DeleteProduct(None, <<"A">>)
    \/ \E session \in Cookies, sku \in D, ym \in SaleMonths :
            DeleteSale(session, sku, ym[1], ym[2])
    \/ DeleteSale(None, <<"A">>, 2025, 1)

\* Two users who both use the SKU "A".
Next ==
    Requests({<<"a">>, <<" ", "b">>}, {<<"a">>}, {<<"A">>},
             {sf \in SalesForms : sf.units_sold \in {<<10>>, <<0, 20>>, <<20, -1>>}})

Spec == Init /\ [][Next]_vars

\* One user with the SKUs "A" and "B".
NextStore == Requests({<<"a">>}, {<<"a">>, <<" ", "B">>}, StoredSkus, SalesForms)

SpecStore == Init /\ [][NextStore]_vars

\* One user and one SKU; a page read runs while write requests commit.
NextReader ==
    \/ Requests({<<"a">>}, {<<"a">>}, {<<"A">>},
                {sf \in SalesForms : sf.units_sold \in {<<10>>, <<10, 20>>}})
    \/ \E session \in Cookies : RdBegin(session, <<"A">>)
    \/ RdFetchProduct
    \/ RdFetchUnits
    \/ RdEnd

SpecReader == Init /\ [][NextReader]_vars

\* Registration and login with e-mails that differ in case and padding and
\* passwords that are too short, do not match or differ past BCRYPT_MAX.
NextAuth ==
    \/ \E email \in Emails, salt \in Salts,
          password \in {Password(8, "p"), Password(7, "p"), Password(BCRYPT_MAX + 1, "p")} :
            \E password2 \in {password, Password(8, "q")} :
                Register(email, password, password2, salt)
    \/ \E email \in Emails, password \in Passwords : Login(email, password)

SpecAuth == Init /\ [][NextAuth]_vars

\* make_session_cookie(user_id) at the current time under the current key.
MakeCookie(user_id) ==
    LET cookie == make_session_cookie(SECRET_KEY, user_id, now)
    IN  /\ sessions' = {Issued(user_id, cookie)}
        /\ last' = [op |-> "make_session_cookie", session |-> None,
                    req |-> [user_id |-> user_id, at |-> now, key |-> SECRET_KEY],
                    status |-> "", user_id |-> None, set_cookie |-> Some(cookie)]
        /\ UNCHANGED <<users, products, monthly_sales, seq, SECRET_KEY, now, today,
                       rd, snaps>>

\* decode_session_cookie(token) of the cookie made last.
DecodeCookie ==
    \E s \in sessions :
        LET d == decode_session_cookie(SECRET_KEY, s.cookie, now)
        IN  /\ last' = [op |-> "decode_session_cookie", session |-> Some(s.cookie),
                        req |-> [user_id |-> s.user_id, at |-> now, key |-> SECRET_KEY],
                        status |-> d.exc, user_id |-> d.value, set_cookie |-> None]
            /\ UNCHANGED <<users, products, monthly_sales, seq, SECRET_KEY, now, today,
                           sessions, rd, snaps>>

\* A restart of the process without SECRET_KEY in its environment: the key is
\* os.urandom(32).hex().
Restart ==
    /\ SECRET_KEY' \in Keys
    /\ UNCHANGED <<users, products, monthly_sales, seq, now, today, sessions, last,
                   rd, snaps>>

NextCookie ==
    \/ \E user_id \in 1..MaxCookieUid : MakeCookie(user_id)
    \/ DecodeCookie
    \/ Tick
    \/ Restart

SpecCookie == Init /\ [][NextCookie]_vars

-----------------------------------------------------------------------------
(* Properties of the store.                                                *)

Owned(T, user_id) == {r \in T : r.user_id = user_id}

RowsOf(T, user_id, sku) == {r \in T : r.user_id = user_id /\ r.sku = sku}

IsWrite(op) == op \in {"upsert", "delete_product", "delete_sale"}

\* The SKU an upsert request stores under.
FormSku(f) == str_upper(str_strip(f.sku))

\* The units the i-th zipped row of a form leaves for its (year, month): those of
\* the last row of the form with that (year, month).
FinalUnits(f, i) ==
    LET same == {j \in 1..ZipLen(f.years, f.months, f.units_sold) :
                    f.years[j] = f.years[i] /\ f.months[j] = f.months[i]}
    IN  f.units_sold[CHOOSE j \in same : \A k \in same : k <= j]

\* Some zipped row of the form is one the store refuses.
HasRefusedRow(f) ==
    \E i \in 1..ZipLen(f.years, f.months, f.units_sold) :
        f.months[i] < 1 \/ f.months[i] > 12 \/ f.units_sold[i] < 0

\* C1 (part): what a user reads is read from that user's rows alone, and is
\* the same whatever rows other users own.
ReadsOwnRowsOnly ==
    \A B \in 1..MaxUserId, sku \in StoredSkus :
        /\ fetch_product(products, B, sku)
             = fetch_product(Owned(products, B), B, sku)
        /\ fetch_product(products, B, sku) # None
             => fetch_product(products, B, sku)[1].user_id = B
        /\ \A ym \in SaleMonths :
             fetch_month_units(monthly_sales, B, sku, ym[1], ym[2])
               = fetch_month_units(Owned(monthly_sales, B), B, sku, ym[1], ym[2])
        /\ compute_for_sku(products, monthly_sales, B, sku, today)
             = compute_for_sku(Owned(products, B), Owned(monthly_sales, B), B, sku, today)
        /\ Owned(products, B) = {} =>
             compute_for_sku(products, monthly_sales, B, sku, today) = None

\* C1 (part): an upsert, delete-product or delete-sale request served for user
\* A leaves the rows of every other user B as they were.
WritesOwnRowsOnly ==
    \A A \in 1..MaxUserId, B \in 1..MaxUserId :
        (A # B /\ IsWrite(last'.op) /\ last'.user_id = Some(A))
        => /\ Owned(products', B) = Owned(products, B)
           /\ Owned(monthly_sales', B) = Owned(monthly_sales, B)

\* C1: cross-user isolation.  No write request of a user A changes a Product
\* or MonthlySales row of another user B, and fetch_product, fetch_month_units
\* and compute_for_sku for B depend on B's rows only, also when A and B store
\* the same SKU; compute_for_sku is None for a user who owns no product.
C1_CrossUserIsolation == [][WritesOwnRowsOnly]_vars /\ []ReadsOwnRowsOnly

\* Users 1 and 2 both stored SKU "A" with sales for 2025-01; user 1 then
\* deleted the product, and user 2's rows are still there.
C1_Witness ==
    /\ last.op = "delete_product" /\ last.user_id = Some(1) /\ last.status = "ok"
    /\ last.req.sku = <<"A">>
    /\ seq.products = 2
    /\ fetch_product(products, 1, <<"A">>) = None
    /\ fetch_product(products, 2, <<"A">>) # None
    /\ fetch_month_units(monthly_sales, 2, <<"A">>, 2025, 1) # None
    /\ fetch_month_units(monthly_sales, 1, <<"A">>, 2025, 1) = None

\* The product row and every zipped sales row of form f are stored for the user.
FormPersisted(P, M, user_id, f) ==
    /\ \E r \in RowsOf(P, user_id, FormSku(f)) :
          /\ r.name = str_strip(f.name)
          /\ r.lead_time_days = f.lead_time_days
          /\ r.z_value = f.z_value
          /\ r.fba_stock = f.fba_stock
          /\ r.inbound_stock = f.inbound_stock
    /\ \A i \in 1..ZipLen(f.years, f.months, f.units_sold) :
          fetch_month_units(M, user_id, FormSku(f), f.years[i], f.months[i])
            = Some(FinalUnits(f, i))

UpsertAllOrNothing ==
    last'.op = "upsert" =>
        /\ \/ /\ last'.status = "ok"
              /\ FormPersisted(products', monthly_sales', last'.user_id[1], last'.req)
           \/ /\ last'.status # "ok"
              /\ products' = products
              /\ monthly_sales' = monthly_sales
        /\ (last'.user_id # None /\ FormSku(last'.req) # <<>> /\ HasRefusedRow(last'.req))
             => last'.status = "IntegrityError"

\* C2: the paired upsert is all-or-nothing.  After an /upsert request either
\* the product write and every sales row of the request are stored, or the
\* products and monthly_sales tables are exactly as before the request; a
\* request with a sales row the store refuses (month outside 1..12, negative
\* units) is of the second kind.
C2_UpsertAllOrNothing == [][UpsertAllOrNothing]_vars

\* An upsert whose second row has month 13 was refused: the product it would
\* have rewritten keeps its old values and the 20 units of its first row
\* did not replace the 10 stored for 2025-01.
C2_Witness ==
    /\ last.op = "upsert" /\ last.status = "IntegrityError"
    /\ last.req.months = <<1, 13>>
    /\ \E r \in RowsOf(products, last.user_id[1], FormSku(last.req)) :
          r.lead_time_days # last.req.lead_time_days
    /\ fetch_month_units(monthly_sales, last.user_id[1], FormSku(last.req), 2025, 1)
         = Some(10)

OneProductPerKey ==
    \A r1 \in products, r2 \in products :
        (r1.user_id = r2.user_id /\ r1.sku = r2.sku) => r1 = r2

UpsertProductInPlace ==
    (last'.op = "upsert" /\ last'.status = "ok") =>
        LET uid == last'.user_id[1]
            f == last'.req
        IN  /\ Cardinality(RowsOf(products', uid, FormSku(f))) = 1
            /\ \A r \in RowsOf(products', uid, FormSku(f)) :
                  /\ r.name = str_strip(f.name)
                  /\ r.lead_time_days = f.lead_time_days
                  /\ r.z_value = f.z_value
                  /\ r.fba_stock = f.fba_stock
                  /\ r.inbound_stock = f.inbound_stock
            /\ RowsOf(products, uid, FormSku(f)) # {} =>
                  /\ Cardinality(products') = Cardinality(products)
                  /\ {r.id : r \in products'} = {r.id : r \in products}

\* C4: there is at most one Product row per (user id, SKU), and an upsert on
\* an existing (user, sku) changes that row and adds none: after it there is
\* exactly one row for the pair, with the name, lead time, Z, FBA stock and
\* inbound stock of the call.
C4_OneProductPerUserSku == []OneProductPerKey /\ [][UpsertProductInPlace]_vars

\* The product of the last upsert has had two upserts (its two sales rows
\* come from two requests) and is still the one row with id 1.
C4_Witness ==
    /\ last.op = "upsert" /\ last.status = "ok"
    /\ seq.products = 1
    /\ Cardinality(RowsOf(products, last.user_id[1], FormSku(last.req))) = 1
    /\ Cardinality(RowsOf(monthly_sales, last.user_id[1], FormSku(last.req))) = 2

OneSalePerKey ==
    \A r1 \in monthly_sales, r2 \in monthly_sales :
        (r1.user_id = r2.user_id /\ r1.sku = r2.sku /\ r1.year = r2.year
           /\ r1.month = r2.month) => r1 = r2

UpsertSaleInPlace ==
    (last'.op = "upsert" /\ last'.status = "ok") =>
        LET uid == last'.user_id[1]
            f == last'.req
        IN  \A i \in 1..ZipLen(f.years, f.months, f.units_sold) :
              /\ fetch_month_units(monthly_sales', uid, FormSku(f), f.years[i],
                                   f.months[i]) = Some(FinalUnits(f, i))
              /\ \A r \in monthly_sales :
                    SameSaleKey(r, uid, FormSku(f), f.years[i], f.months[i])
                    => [r EXCEPT !.units_sold = FinalUnits(f, i)] \in monthly_sales'

\* C5: there is at most one MonthlySales row per (user id, SKU, year, month),
\* and a repeat write for an existing key replaces units_sold in that row:
\* fetch_month_units returns the units written last for the key, the later
\* entry when a (year, month) occurs twice in one batch.
C5_OneSalePerKey == []OneSalePerKey /\ [][UpsertSaleInPlace]_vars

\* A batch with 2025-01 twice (10, then 20) was stored: the month reads 20.
C5_Witness ==
    /\ last.op = "upsert" /\ last.status = "ok"
    /\ last.req.months = <<1, 1>> /\ last.req.units_sold = <<10, 20>>
    /\ fetch_month_units(monthly_sales, last.user_id[1], FormSku(last.req), 2025, 1)
         = Some(20)
    /\ Cardinality(RowsOf(monthly_sales, last.user_id[1], FormSku(last.req))) = 1

DeleteProductRemovesAll ==
    (last'.op = "delete_product" /\ last'.status = "ok") =>
        LET uid == last'.user_id[1]
            sku == last'.req.sku
        IN  /\ fetch_product(products', uid, sku) = None
            /\ \A r \in monthly_sales \cup monthly_sales' :
                  fetch_month_units(monthly_sales', uid, sku, r.year, r.month) = None
            /\ \A ym \in SaleMonths :
                  fetch_month_units(monthly_sales', uid, sku, ym[1], ym[2]) = None
            /\ products' \ RowsOf(products', uid, sku)
                 = products \ RowsOf(products, uid, sku)
            /\ monthly_sales' \ RowsOf(monthly_sales', uid, sku)
                 = monthly_sales \ RowsOf(monthly_sales, uid, sku)

\* C6: deleting a product removes the product row and every MonthlySales row
\* of that (user, sku): right after the request fetch_product is None and
\* fetch_month_units is None for every (year, month), and the products and
\* sales of every other SKU are unchanged.
C6_DeleteProductRemovesSales == [][DeleteProductRemovesAll]_vars

\* Two products with one sales row each were stored; the last request deleted
\* one of them, and the other product and its sales row are still there.
C6_Witness ==
    /\ last.op = "delete_product" /\ last.status = "ok"
    /\ seq.products = 2 /\ seq.monthly_sales = 2
    /\ RowsOf(products, last.user_id[1], last.req.sku) = {}
    /\ RowsOf(monthly_sales, last.user_id[1], last.req.sku) = {}
    /\ Cardinality(products) = 1
    /\ Cardinality(monthly_sales) = 1

DeleteSaleRemovesOne ==
    (last'.op = "delete_sale" /\ last'.status = "ok") =>
        LET uid == last'.user_id[1]
            q == last'.req
            hit == {r \in monthly_sales : SameSaleKey(r, uid, q.sku, q.year, q.month)}
        IN  /\ products' = products
            /\ monthly_sales' = monthly_sales \ hit
            /\ Cardinality(hit) <= 1
            /\ fetch_month_units(monthly_sales', uid, q.sku, q.year, q.month) = None
            /\ hit = {} => monthly_sales' = monthly_sales

\* C7: delete_single_month_sale removes the one MonthlySales row with the key
\* (user, sku, year, month) if there is one and changes nothing otherwise:
\* every other MonthlySales row and every Product row stays as it was.
C7_DeleteSaleRemovesOne == [][DeleteSaleRemovesOne]_vars

\* A SKU had sales rows for two months; the last request deleted one of them:
\* the other row and the product are still there.
C7_Witness ==
    /\ last.op = "delete_sale" /\ last.status = "ok"
    /\ seq.monthly_sales = 2
    /\ fetch_month_units(monthly_sales, last.user_id[1], last.req.sku,
                         last.req.year, last.req.month) = None
    /\ Cardinality(RowsOf(monthly_sales, last.user_id[1], last.req.sku)) = 1
    /\ RowsOf(products, last.user_id[1], last.req.sku) # {}
    /\ seq.products = 1

\* C3: a reader never observes a half-applied update.  What compute_for_sku
\* returns for (user, sku) - the product row and the monthly units it hands to
\* the engine - is what it returns on one committed state of the store among
\* those that existed while it ran, when the write that committed meanwhile
\* is an /upsert.
C3_ReadsOneCommittedState ==
    (rd.pc = "done" /\ last.op = "upsert") =>
        \E s \in snaps :
            compute_for_sku(s.products, s.monthly_sales, rd.user_id, rd.sku, today)
              = rd.result

-----------------------------------------------------------------------------
(* Properties of the credential and session service.                       *)

NormalizedEmail(email) == str_lower(str_strip(email))

NoSharedEmail ==
    \A u1 \in users, u2 \in users :
        NormalizedEmail(u1.email) = NormalizedEmail(u2.email) => u1 = u2

\* A registration that reaches create_user with an e-mail whose normalized
\* form is already stored fails and changes nothing.
DuplicateRefused ==
    (/\ last'.op = "register"
     /\ Len(last'.req.password) >= MIN_PASSWORD_LEN
     /\ last'.req.password = last'.req.password2
     /\ \E u \in users : NormalizedEmail(u.email) = NormalizedEmail(last'.req.email))
    => /\ last'.status = "DuplicateEmail"
       /\ last'.set_cookie = None
       /\ users' = users
       /\ seq' = seq

\* C8: create_user fails with the duplicate-email error whenever a user with
\* the same normalized (trimmed, lower-cased) e-mail exists, and then leaves
\* the users table unchanged; no two User rows share a normalized e-mail.
C8_DuplicateEmail == []NoSharedEmail /\ [][DuplicateRefused]_vars

\* A registration with an e-mail that is stored in another spelling (other
\* case or padding) was refused as a duplicate.
C8_Witness ==
    /\ last.op = "register" /\ last.status = "DuplicateEmail"
    /\ \A u \in users : u.email # last.req.email
    /\ \E u \in users : u.email = NormalizedEmail(last.req.email)

\* The stored users a login request's credentials match.
Verified(req) ==
    {u \in users : /\ u.email = NormalizedEmail(req.email)
                   /\ verify_password(req.password, u.hashed_pw)}

\* C9: login issues a session cookie only for the user whose stored e-mail is
\* the normalized e-mail of the request and whose hash the password verifies
\* against, and the cookie embeds that user's id; for an unknown e-mail and
\* for a wrong password alike authenticate_user is None and no cookie is set.
C9_LoginIssuesForVerifiedUser ==
    last.op = "login" =>
        /\ last.set_cookie # None <=> Verified(last.req) # {}
        /\ last.set_cookie # None =>
              \E u \in Verified(last.req) :
                  /\ last.user_id = Some(u.id)
                  /\ json_loads(last.set_cookie[1].payload).type = "int"
                  /\ json_loads(last.set_cookie[1].payload).value = u.id
                  /\ Issued(u.id, last.set_cookie[1]) \in sessions
        /\ Verified(last.req) = {} =>
              /\ last.user_id = None
              /\ last.status = "AuthFailure"
              /\ last.set_cookie = None

\* The second of two users logged in with the e-mail in upper case and got a
\* cookie with the id 2.
C9_Witness ==
    /\ last.op = "login" /\ last.status = "ok"
    /\ Cardinality(users) = 2
    /\ \A u \in users : u.email # last.req.email
    /\ last.user_id = Some(2)
    /\ last.set_cookie[1].payload = <<"2">>

\* C10: session round trip.  A cookie made for a user id decodes to that id
\* when it is decoded at the time it was made, under the key it was made with.
C10_SessionRoundTrip ==
    (/\ last.op = "decode_session_cookie"
     /\ last.session[1].timestamp = last.req.at
     /\ last.session[1].sig.key = last.req.key)
    => /\ last.status = ""
       /\ last.user_id = Some(last.req.user_id)

\* The cookie made for user id 110 was decoded at once and gave 110.
C10_Witness ==
    /\ last.op = "decode_session_cookie"
    /\ last.session[1].timestamp = last.req.at
    /\ last.session[1].sig.key = last.req.key
    /\ last.req.user_id = 110
    /\ last.user_id = Some(110)

-----------------------------------------------------------------------------
\* The cookie decoded last carries a signature made with the present key.
CorrectlySigned ==
    /\ last.op = "decode_session_cookie"
    /\ last.session[1].sig
         = HMAC(last.req.key, last.session[1].payload, last.session[1].timestamp)

\* C11: session expiry.  A correctly signed cookie whose timestamp is more
\* than SESSION_MAX_AGE (30 days) before the time of decoding decodes to None;
\* a correctly signed cookie that is not older than that decodes to the user
\* id it was made for.
C11_SessionExpiry ==
    CorrectlySigned =>
        /\ last.status = ""
        /\ last.user_id = IF last.req.at - last.session[1].timestamp > SESSION_MAX_AGE
                          THEN None
                          ELSE Some(last.req.user_id)

\* A correctly signed cookie was decoded more than 30 days after it was made,
\* and gave None.
C11_Witness ==
    /\ CorrectlySigned
    /\ last.req.at - last.session[1].timestamp > SESSION_MAX_AGE
    /\ last.user_id = None

\* A correctly signed cookie was decoded exactly 30 days after it was made,
\* and gave its user id.
C11_AtMaxAge ==
    /\ CorrectlySigned
    /\ last.req.at - last.session[1].timestamp = SESSION_MAX_AGE
    /\ last.user_id = Some(last.req.user_id)

-----------------------------------------------------------------------------
(* decode_session_cookie on tokens of every kind (src/auth.py 37-41).  The *)
(* token is any text a client can send and any text the signer can have    *)
(* signed: the empty string, text without the separators of a token, a     *)
(* token signed with another key, a token whose payload was changed after  *)
(* signing, and correctly signed tokens, new or old, whose payload is an   *)
(* integer, a string, null, a list or no JSON at all.                      *)

EmptyToken == [form |-> "empty", payload |-> <<>>, timestamp |-> 0, sig |-> <<>>]

MalformedToken == [form |-> "malformed", payload |-> <<"1">>, timestamp |-> 0, sig |-> <<>>]

Payloads ==
    {<<"1">>, <<"2">>, <<"\"", "7", "\"">>, <<"\"", "x", "\"">>, <<"n", "u", "l", "l">>,
     <<"[", "]">>, <<"x">>}

TamperedToken(key, t) == [signer_dumps(key, <<"2">>, t) EXCEPT !.payload = <<"1">>]

TokenInputs(key, t) ==
    {EmptyToken, MalformedToken}
      \cup {signer_dumps(k, p, ts) : k \in Keys, p \in Payloads, ts \in {0, t}}
      \cup {TamperedToken(key, ts) : ts \in {0, t}}

\* decode_session_cookie(token)
DecodeToken(token) ==
    LET d == decode_session_cookie(SECRET_KEY, token, now)
    IN  /\ last' = [op |-> "decode_token", session |-> Some(token),
                    req |-> [at |-> now, key |-> SECRET_KEY],
                    status |-> d.exc, user_id |-> d.value, set_cookie |-> None]
        /\ UNCHANGED <<users, products, monthly_sales, seq, SECRET_KEY, now, today,
                       sessions, rd, snaps>>

NextToken ==
    \/ \E token \in TokenInputs(SECRET_KEY, now) : DecodeToken(token)
    \/ Tick
    \/ Restart

SpecToken == Init /\ [][NextToken]_vars

\* The token decoded last is correctly signed and its payload is JSON text
\* that int() takes: an integer or a string of digits or of other characters.
IntOrStrPayload ==
    /\ last.session[1].form = "signed"
    /\ json_loads(last.session[1].payload).type \in {"int", "str"}

\* The token decoded last is correctly signed and not expired.
SignedAndFresh ==
    /\ last.session[1].form = "signed"
    /\ last.session[1].sig
         = HMAC(last.req.key, last.session[1].payload, last.session[1].timestamp)
    /\ last.req.at - last.session[1].timestamp <= SESSION_MAX_AGE

\* decode_session_cookie raises exactly for the correctly signed, unexpired
\* tokens whose payload is neither an integer nor a string.
DecodeRaisesOnlyForOtherPayloads ==
    last.op = "decode_token" =>
        (last.status # "" <=> (SignedAndFresh /\ ~IntOrStrPayload))

\* C12: decode_session_cookie never raises to its caller: for every token (bad
\* signature, malformed payload, expired, or a correctly signed payload that is
\* not an integer) it returns a user id or None.
C12_DecodeNeverRaises ==
    last.op = "decode_token" => last.status = ""

-----------------------------------------------------------------------------
(* The write requests with every kind of session cookie (src/main.py       *)
(* 240-253, 462-486, 757-781): none, the empty string, text that is no     *)
(* token, a token for user 1 signed with another key, a cookie of user 2   *)
(* whose payload was changed to 1, and the cookies the server issued, new  *)
(* and older than SESSION_MAX_AGE.                                         *)

OtherKey == CHOOSE k \in Keys : k # SECRET_KEY

GateSessions ==
    Cookies \cup {None, Some(EmptyToken), Some(MalformedToken),
                  Some(signer_dumps(OtherKey, <<"1">>, now)),
                  Some(TamperedToken(SECRET_KEY, now))}

NextGate ==
    \/ \E email \in {<<"a">>, <<"b">>} :
            Register(email, Password(8, "p"), Password(8, "p"), "s1")
    \/ Tick
    \/ \E session \in GateSessions : Upsert(session, AnyForm)
    \/ \E session \in GateSessions : DeleteProduct(session, <<"A">>)
    \/ \E session \in GateSessions : DeleteSale(session, <<"A">>, 2025, 1)

SpecGate == Init /\ [][NextGate]_vars

\* The session cookie is a token signed with the server's key, not older
\* than SESSION_MAX_AGE, with an integer payload.
ValidSession(session) ==
    /\ session # None
    /\ session[1].form = "signed"
    /\ session[1].sig = HMAC(SECRET_KEY, session[1].payload, session[1].timestamp)
    /\ now - session[1].timestamp <= SESSION_MAX_AGE
    /\ json_loads(session[1].payload).type = "int"

EmbeddedId(session) == json_loads(session[1].payload).value

\* What a served write request did to the rows of user_id.
AppliedAs(user_id) ==
    /\ last'.status = "ok"
    /\ last'.user_id = Some(user_id)
    /\ \A u \in UserIds(users) \ {user_id} :
          /\ Owned(products', u) = Owned(products, u)
          /\ Owned(monthly_sales', u) = Owned(monthly_sales, u)
    /\ last'.op = "upsert" =>
          /\ fetch_product(products', user_id, FormSku(last'.req)) # None
          /\ \A i \in 1..ZipLen(last'.req.years, last'.req.months, last'.req.units_sold) :
                fetch_month_units(monthly_sales', user_id, FormSku(last'.req),
                                  last'.req.years[i], last'.req.months[i])
                  = Some(FinalUnits(last'.req, i))
    /\ last'.op = "delete_product" =>
          /\ RowsOf(products', user_id, last'.req.sku) = {}
          /\ RowsOf(monthly_sales', user_id, last'.req.sku) = {}
    /\ last'.op = "delete_sale" =>
          fetch_month_units(monthly_sales', user_id, last'.req.sku, last'.req.year,
                            last'.req.month) = None

Rejected ==
    /\ last'.status = "HTTPException"
    /\ last'.user_id = None
    /\ products' = products
    /\ monthly_sales' = monthly_sales
    /\ seq' = seq

\* A write request is served as the user of its valid session cookie, and
\* refused without one.
GatedBySession ==
    (IsWrite(last'.op) /\ now' = now) =>
        IF ValidSession(last'.session)
        THEN AppliedAs(EmbeddedId(last'.session))
        ELSE Rejected

\* C13: every data mutation is gated by session resolution.  An upsert,
\* delete-product or delete-sale request whose session cookie is missing,
\* malformed, wrongly signed or expired is rejected and leaves the store
\* unchanged; with a valid cookie the operation is applied with exactly the
\* user id embedded in the cookie.
C13_MutationsGated == [][GatedBySession]_vars

\* A delete-product request with a token for user 1 signed with another key
\* was refused while user 1 has a product.
C13_Witness ==
    /\ last.op = "delete_product"
    /\ last.session # None
    /\ last.session[1].form = "signed"
    /\ last.session[1].sig.key # SECRET_KEY
    /\ last.session[1].payload = <<"1">>
    /\ last.status = "HTTPException"
    /\ Owned(products, 1) # {}

\* An upsert with a cookie the server issued more than 30 days before was
\* refused.
C13_ExpiredRefused ==
    /\ last.op = "upsert"
    /\ last.session # None
    /\ last.session[1].form = "signed"
    /\ last.session[1].sig.key = SECRET_KEY
    /\ now - last.session[1].timestamp > SESSION_MAX_AGE
    /\ last.status = "HTTPException"

\* A delete-sale request with the cookie of user 2 removed a sale of user 2
\* while user 1 keeps the sale of the same SKU and month.
C13_ValidApplied ==
    /\ last.op = "delete_sale" /\ last.status = "ok"
    /\ last.user_id = Some(2)
    /\ EmbeddedId(last.session) = 2
    /\ Owned(monthly_sales, 2) = {}
    /\ Owned(monthly_sales, 1) # {}

-----------------------------------------------------------------------------
(* last_n_calendar_months as the months go by (src/main.py 35-44).  The    *)
(* function reads date.today(); the calls of the program ask for 3 months  *)
(* (compute_for_sku) and for 6 (the chart of product_detail).              *)

MaxYear == 2027

CHART_MONTHS == 6

\* The calendar moves on to the next month.
NextMonth ==
    /\ today[1] < MaxYear \/ today[2] < 12
    /\ today' = IF today[2] = 12 THEN <<today[1] + 1, 1>> ELSE <<today[1], today[2] + 1>>
    /\ UNCHANGED <<users, products, monthly_sales, seq, SECRET_KEY, now, sessions,
                   last, rd, snaps>>

\* last_n_calendar_months(n)
LastMonths(n) ==
    /\ last' = [op |-> "last_n_calendar_months", session |-> None,
                req |-> [n |-> n, today |-> today], status |-> "", user_id |-> None,
                set_cookie |-> None, out |-> last_n_calendar_months(n, today)]
    /\ UNCHANGED <<users, products, monthly_sales, seq, SECRET_KEY, now, today,
                   sessions, rd, snaps>>

NextMonths ==
    \/ NextMonth
    \/ \E n \in {WINDOW_MONTHS, CHART_MONTHS} : LastMonths(n)

SpecMonths == Init /\ [][NextMonths]_vars

\* The number of the month m of the year y, counting months from year 0.
MonthIndex(y, m) == y * 12 + (m - 1)

\* C14: for every current date (year Y, month M), last_n_calendar_months(3) is
\* exactly 3 (year, month) pairs, most recent first, starting with (Y, M); each
\* next pair is the calendar month just before, month 1 being followed by
\* month 12 of the year before, and every month is in 1..12.
C14_LastThreeCalendarMonths ==
    (last.op = "last_n_calendar_months" /\ last.req.n = 3) =>
        /\ Len(last.out) = 3
        /\ last.out[1] = last.req.today
        /\ \A i \in 1..3 :
              /\ last.out[i][2] \in 1..12
              /\ MonthIndex(last.out[i][1], last.out[i][2])
                   = MonthIndex(last.req.today[1], last.req.today[2]) - (i - 1)
        /\ \A i \in 1..2 :
              last.out[i][2] = 1 => last.out[i + 1] = <<last.out[i][1] - 1, 12>>

\* In January 2026 the three months are 2026-01, 2025-12 and 2025-11.
C14_Witness ==
    /\ last.op = "last_n_calendar_months" /\ last.req.n = 3
    /\ last.req.today = <<2026, 1>>
    /\ last.out = <<<<2026, 1>>, <<2025, 12>>, <<2025, 11>>>>

-----------------------------------------------------------------------------
(* compute_for_sku on a store at rest, as the months go by (src/main.py    *)
(* 141-158): sales of the current month, of a month with 0 units and of    *)
(* months that leave the window of three months.                           *)

WindowForms ==
    {[years |-> <<2025>>, months |-> <<1>>, units_sold |-> <<10>>],
     [years |-> <<2024>>, months |-> <<12>>, units_sold |-> <<0>>],
     [years |-> <<2025>>, months |-> <<3>>, units_sold |-> <<0>>]}

MaxWindowYear == 2025

\* compute_for_sku(cur, user_id, sku) of a page request, with no write
\* request in progress.
ComputeForSku(session, sku) ==
    LET auth == current_user_id(SECRET_KEY, session, now)
        computed == compute_for_sku(products, monthly_sales, auth.value[1], sku, today)
    IN  /\ auth.exc = "" /\ auth.value # None
        /\ last' = [op |-> "compute_for_sku", session |-> session,
                    req |-> [sku |-> sku, today |-> today],
                    status |-> IF computed = None THEN "NotFound" ELSE "ok",
                    user_id |-> auth.value, set_cookie |-> None, out |-> computed]
        /\ UNCHANGED <<users, products, monthly_sales, seq, SECRET_KEY, now, today,
                       sessions, rd, snaps>>

NextWindow ==
    \/ Register(<<"a">>, Password(8, "p"), Password(8, "p"), "s1")
    \/ \E session \in Cookies, sf \in WindowForms :
            Upsert(session, UpsertForm(<<"a">>, CHOOSE pf \in ProductForms : pf.name = <<>>, sf))
    \/ \E session \in Cookies, ym \in {<<2025, 1>>, <<2024, 12>>} :
            DeleteSale(session, <<"A">>, ym[1], ym[2])
    \/ today[1] <= MaxWindowYear /\ NextMonth
    \/ \E session \in Cookies : ComputeForSku(session, <<"A">>)

SpecWindow == Init /\ [][NextWindow]_vars

\* The units recorded for (user, sku) in the i-th month of the window that
\* starts with the month of `date_today` and goes back in time.
UnitsInWindow(M, user_id, sku, date_today, i) ==
    {r.units_sold : r \in {x \in RowsOf(M, user_id, sku) :
                             MonthIndex(x.year, x.month)
                               = MonthIndex(date_today[1], date_today[2]) - (i - 1)}}

\* The months of the window that have a fact.
Recorded(M, user_id, sku, date_today) ==
    {i \in 1..WINDOW_MONTHS : UnitsInWindow(M, user_id, sku, date_today, i) # {}}

\* units is exactly the recorded units of the window, in window order.
IsWindowUnits(units, M, user_id, sku, date_today) ==
    LET have == Recorded(M, user_id, sku, date_today)
    IN  /\ Len(units) = Cardinality(have)
        /\ \A i \in have :
              UnitsInWindow(M, user_id, sku, date_today, i)
                = {units[Cardinality({j \in have : j <= i})]}

WindowUnitsOnly ==
    (last'.op = "compute_for_sku" /\ last'.status = "ok" /\ today' = today) =>
        IsWindowUnits(last'.out[1].monthly_units, monthly_sales, last'.user_id[1],
                      last'.req.sku, today)

\* C15: missing data is not zero sales.  The sequence compute_for_sku hands to
\* the engine holds exactly the units of those of the 3 window months that
\* have a MonthlySales row for (user, sku), most recent first; a month without
\* a row gives no element, a row of 0 units gives the element 0, rows outside
\* the window give nothing.
C15_WindowUnitsOnly == [][WindowUnitsOnly]_vars

\* In February 2025, with 10 units for January and 0 for December and none
\* for February, the sequence is 10, 0.
C15_Witness ==
    /\ last.op = "compute_for_sku" /\ last.status = "ok"
    /\ last.req.today = <<2025, 2>>
    /\ last.out[1].monthly_units = <<10, 0>>

\* In March 2025 the row of December 2024 is stored but outside the window.
C15_OutsideWindow ==
    /\ last.op = "compute_for_sku" /\ last.status = "ok"
    /\ last.req.today = <<2025, 3>>
    /\ \E r \in monthly_sales : r.year = 2024 /\ r.month = 12
    /\ last.out[1].monthly_units = <<10>>

-----------------------------------------------------------------------------
(* compute_from_last_months on inputs of every sign (src/main.py 51-81).   *)

LeadTimes == {-1, 0, 1, 7}

ZValues == {-1, 0, 2}

UnitSeqs == {<<>>, <<0>>, <<10>>, <<10, 10>>, <<10, 20>>, <<0, 30, 60>>}

StockLevels == {-5, 0, 40, 100}

InboundLevels == {0, 3}

\* compute_from_last_months(lead_time, z, monthly_units, fba_stock, inbound_stock)
Engine(lead_time, z, monthly_units, fba_stock, inbound_stock) ==
    /\ last' = [op |-> "compute_from_last_months", session |-> None,
                req |-> [lead_time |-> lead_time, z |-> z,
                         monthly_units |-> monthly_units, fba_stock |-> fba_stock,
                         inbound_stock |-> inbound_stock],
                status |-> "", user_id |-> None, set_cookie |-> None,
                out |-> compute_from_last_months(lead_time, z, monthly_units,
                                                 fba_stock, inbound_stock)]
    /\ UNCHANGED <<users, products, monthly_sales, seq, SECRET_KEY, now, today,
                   sessions, rd, snaps>>

NextEngine ==
    \E lead_time \in LeadTimes, z \in ZValues, monthly_units \in UnitSeqs,
       fba_stock \in StockLevels, inbound_stock \in InboundLevels :
        Engine(lead_time, z, monthly_units, fba_stock, inbound_stock)

SpecEngine == Init /\ [][NextEngine]_vars

EngineCalled == last.op = "compute_from_last_months"

\* dailyVelocity * 60 + safetyStock - (fbaStock + inboundStock), of the
\* metrics returned and the stock given.
Shortfall ==
    NumSub(NumAdd(NumScale(last.out.daily_velocity, ORDER_DAYS), last.out.safety_stock),
           Rat(last.req.fba_stock + last.req.inbound_stock, 1))

\* order_qty is max(0, shortfall): the shortfall when that is positive, else 0.
OrderQtyIsClampedShortfall ==
    IF NumSign(Shortfall) > 0
    THEN NumEq(last.out.order_qty, Shortfall)
    ELSE NumEq(last.out.order_qty, Zero)

\* The statement of C16 as it stands: for all inputs order_qty is not negative
\* and equals max(0, dailyVelocity * 60 + safetyStock - (fbaStock + inboundStock)).
C16_OrderQtyForAllInputs ==
    EngineCalled =>
        /\ NumSign(last.out.order_qty) >= 0
        /\ OrderQtyIsClampedShortfall

\* C16: the engine's order quantity is never negative.  For a sequence of
\* monthly units that is not empty it equals
\* max(0, dailyVelocity * 60 + safetyStock - (fbaStock + inboundStock)), so it
\* is 0 whenever the stock covers the 60-day demand plus safety stock; for the
\* empty sequence it is 0, also when fbaStock + inboundStock is negative.
C16_OrderQtyNeverNegative ==
    EngineCalled =>
        /\ NumSign(last.out.order_qty) >= 0
        /\ last.req.monthly_units # <<>> => OrderQtyIsClampedShortfall
        /\ last.req.monthly_units = <<>> => NumEq(last.out.order_qty, Zero)

\* With units 10 and 20, Z 2 and lead time 7 the demand and safety stock are
\* positive and a stock of 100 covers them: the order quantity is 0.
C16_Witness ==
    /\ EngineCalled
    /\ last.req.monthly_units = <<10, 20>> /\ last.req.z = 2 /\ last.req.lead_time = 7
    /\ last.req.fba_stock = 100
    /\ NumSign(last.out.safety_stock) > 0
    /\ NumSign(Shortfall) < 0
    /\ NumEq(last.out.order_qty, Zero)

\* The same product with no stock: the order quantity is the positive
\* shortfall.
C16_PositiveOrder ==
    /\ EngineCalled
    /\ last.req.monthly_units = <<10, 20>> /\ last.req.z = 2 /\ last.req.lead_time = 7
    /\ last.req.fba_stock = 0 /\ last.req.inbound_stock = 0
    /\ NumSign(last.out.order_qty) > 0
    /\ NumEq(last.out.order_qty, Shortfall)

\* C17: the engine's fallbacks.  For the empty sequence all five metrics are
\* 0 whatever the lead time, Z and stock; for a sequence of length 1 stdDaily
\* is 0, hence the safety stock is 0 and the reorder point is
\* dailyVelocity * leadTimeDays.
C17_EngineFallbacks ==
    EngineCalled =>
        /\ last.req.monthly_units = <<>> =>
              \A k \in DOMAIN last.out : NumEq(last.out[k], Zero)
        /\ Len(last.req.monthly_units) = 1 =>
              /\ NumEq(last.out.std_daily, Zero)
              /\ NumEq(last.out.safety_stock, Zero)
              /\ NumEq(last.out.rop, NumScale(last.out.daily_velocity, last.req.lead_time))
              /\ NumEq(last.out.daily_velocity,
                       Rat(last.req.monthly_units[1], DAYS_PER_MONTH))

\* One month of 10 units, Z 2 and lead time 7: the reorder point is 10/30 * 7
\* with no safety stock.
C17_Witness ==
    /\ EngineCalled
    /\ last.req.monthly_units = <<10>> /\ last.req.z = 2 /\ last.req.lead_time = 7
    /\ NumEq(last.out.rop, Rat(70, 30))
    /\ NumEq(last.out.safety_stock, Zero)

\* No month at all, Z 2, lead time 7 and a stock of -5: all metrics are 0.
C17_EmptySequence ==
    /\ EngineCalled
    /\ last.req.monthly_units = <<>> /\ last.req.z = 2 /\ last.req.lead_time = 7
    /\ last.req.fba_stock = -5
    /\ \A k \in DOMAIN last.out : NumEq(last.out[k], Zero)

-----------------------------------------------------------------------------
(* POST /upsert with product values of every sign, and the pages that      *)
(* compute from what is stored (src/main.py 462-486, 141-158).             *)

InputForms ==
    {[name |-> <<>>, lead_time_days |-> 7, z_value |-> 1, fba_stock |-> 5,
      inbound_stock |-> 0],
     [name |-> <<>>, lead_time_days |-> 0, z_value |-> 1, fba_stock |-> 5,
      inbound_stock |-> 0],
     [name |-> <<>>, lead_time_days |-> -1, z_value |-> 1, fba_stock |-> 5,
      inbound_stock |-> 0],
     [name |-> <<>>, lead_time_days |-> 7, z_value |-> 1, fba_stock |-> -5,
      inbound_stock |-> 0],
     [name |-> <<>>, lead_time_days |-> 7, z_value |-> 1, fba_stock |-> 5,
      inbound_stock |-> -1]}

NextInput ==
    \/ Register(<<"a">>, Password(8, "p"), Password(8, "p"), "s1")
    \/ \E session \in Cookies, pf \in InputForms, sf \in WindowForms :
            Upsert(session, UpsertForm(<<"a">>, pf, sf))
    \/ \E session \in Cookies : DeleteProduct(session, <<"A">>)
    \/ \E session \in Cookies : ComputeForSku(session, <<"A">>)

SpecInput == Init /\ [][NextInput]_vars

ValidProduct(r) ==
    r.lead_time_days >= 1 /\ r.fba_stock >= 0 /\ r.inbound_stock >= 0

\* C18: invalid product input is rejected before it reaches the engine.  Every
\* stored Product row has lead_time_days >= 1 and non-negative FBA and inbound
\* stock, and compute_for_sku never calls compute_from_last_months with
\* lead_time <= 0.
C18_InvalidProductRejected ==
    /\ \A r \in products : ValidProduct(r)
    /\ (last.op = "compute_for_sku" /\ last.status = "ok") =>
          last.out[1].prod.lead_time_days >= 1

\* compute_for_sku called the engine with the lead time 0 of a stored row.
C18_EngineGetsLeadTimeZero ==
    ~(/\ last.op = "compute_for_sku" /\ last.status = "ok"
      /\ last.out[1].prod.lead_time_days = 0
      /\ last.out[1].res
           = compute_from_last_months(0, last.out[1].prod.z_value,
                                      last.out[1].monthly_units,
                                      last.out[1].prod.fba_stock,
                                      last.out[1].prod.inbound_stock))

-----------------------------------------------------------------------------
(* Properties of the stored sales rows.                                    *)

ValidSale(r) == r.month >= 1 /\ r.month <= 12 /\ r.units_sold >= 0

AllSalesValid == \A r \in monthly_sales : ValidSale(r)

\* An upsert that reaches the store with a sales row of a month outside 1..12
\* or of negative units is refused, and no sales row is created or changed.
BadSaleRefused ==
    (/\ last'.op = "upsert" /\ last'.user_id # None
     /\ FormSku(last'.req) # <<>>
     /\ HasRefusedRow(last'.req))
    => /\ last'.status = "IntegrityError"
       /\ monthly_sales' = monthly_sales
       /\ seq'.monthly_sales = seq.monthly_sales

\* C19: after any sequence of operations every stored MonthlySales row has
\* month in 1..12 and units_sold >= 0: a write with a month outside 1..12 or
\* with negative units is refused by the store and creates or changes no row.
C19_SalesRowsValid == []AllSalesValid /\ [][BadSaleRefused]_vars

\* A write of -1 units for 2024-12 was refused while 0 units are stored for
\* that month, and the 0 units stay.
C19_Witness ==
    /\ last.op = "upsert" /\ last.status = "IntegrityError"
    /\ last.req.units_sold = <<20, -1>>
    /\ fetch_month_units(monthly_sales, last.user_id[1], FormSku(last.req), 2024, 12)
         = Some(0)

\* A write for month 13 was refused and left no row.
C19_MonthRefused ==
    /\ last.op = "upsert" /\ last.status = "IntegrityError"
    /\ last.req.months = <<1, 13>>
    /\ \A r \in monthly_sales : r.month # 13

\* Every sales row has a product row of the same user and SKU.
NoOrphanSales ==
    \A r \in monthly_sales : fetch_product(products, r.user_id, r.sku) # None

\* C20: no orphan sales facts.  After any sequence and any interleaving of the
\* /upsert, /delete/product and /delete/sale requests every MonthlySales row
\* (user, sku, year, month) has a Product row with the same (user, sku),
\* although monthly_sales declares no foreign key to products.
C20_NoOrphanSales == NoOrphanSales

\* The product A was deleted after it had sales, while B keeps its product
\* and its sales: no sales row of A is left.
C20_Witness ==
    /\ last.op = "delete_product" /\ last.status = "ok"
    /\ last.req.sku = <<"A">>
    /\ seq.products = 2 /\ seq.monthly_sales = 2
    /\ \A r \in monthly_sales : r.sku = <<"B">>
    /\ monthly_sales # {}
    /\ \E r \in products : r.sku = <<"B">>

-----------------------------------------------------------------------------
(* The listing pages and exports: GET /products, GET /plan,                *)
(* GET /export/products.xlsx, GET /export/plan.xlsx (src/main.py 489-504,  *)
(* 558-573, 806-829, 835-853).  Each reads the user's SKUs with one SELECT *)
(* and then, SKU by SKU, unpacks compute_for_sku(cur, user_id, sku) into   *)
(* prod, _, _, res.  The connection holds no transaction between the       *)
(* statements, so a write request may commit between the listing and a     *)
(* computation, and between two computations.  A computation is one step   *)
(* here: whether it returns None is settled by its first SELECT.           *)

LIST_OPS == {"products", "plan", "export_products_xlsx", "export_plan_xlsx"}

\* SELECT sku FROM products WHERE user_id=? ORDER BY updated_at DESC: the
\* SKUs of the user's rows, in the order of their time stamps.
list_skus(P, user_id) ==
    LET S == {r.sku : r \in Owned(P, user_id)}
    IN  {s \in [1..Cardinality(S) -> S] : \A i, j \in DOMAIN s : s[i] = s[j] => i = j}

\* Tuple unpacking `prod, _, _, res = computed`: TypeError when computed is None.
unpack(computed) == IF computed = None THEN "TypeError" ELSE ""

\* user_id from the cookie, conn = get_conn(), skus = [...].fetchall()
LsBegin(op, session) ==
    LET auth == current_user_id(SECRET_KEY, session, now)
    IN  /\ rd.pc = "idle"
        /\ auth.exc = "" /\ auth.value # None
        /\ \E skus \in list_skus(products, auth.value[1]) :
              rd' = [pc |-> "list", op |-> op, user_id |-> auth.value[1],
                     skus |-> skus, i |-> 1, computed |-> <<>>, exc |-> ""]
        /\ snaps' = {Store}
        /\ UNCHANGED <<users, products, monthly_sales, seq, SECRET_KEY, now, today,
                       sessions, last>>

\* One turn of the loop: prod, _, _, res = compute_for_sku(cur, user_id, sku)
LsCompute ==
    /\ rd.pc = "list"
    /\ rd.i <= Len(rd.skus)
    /\ LET computed == compute_for_sku(products, monthly_sales, rd.user_id,
                                       rd.skus[rd.i], today)
       IN  rd' = IF unpack(computed) # ""
                 THEN [rd EXCEPT !.pc = "list_done", !.exc = unpack(computed),
                                 !.computed = Append(rd.computed, computed)]
                 ELSE [rd EXCEPT !.i = rd.i + 1,
                                 !.computed = Append(rd.computed, computed)]
    /\ UNCHANGED <<users, products, monthly_sales, seq, SECRET_KEY, now, today,
                   sessions, last, snaps>>

\* The loop is over (or was left by the exception): the response.
LsEnd ==
    /\ rd.pc = "list_done" \/ (rd.pc = "list" /\ rd.i > Len(rd.skus))
    /\ rd' = Idle
    /\ snaps' = {}
    /\ last' = [op |-> rd.op, session |-> None, req |-> [skus |-> rd.skus],
                status |-> IF rd.exc # "" THEN rd.exc ELSE "ok",
                user_id |-> Some(rd.user_id), set_cookie |-> None,
                out |-> rd.computed]
    /\ UNCHANGED <<users, products, monthly_sales, seq, SECRET_KEY, now, today, sessions>>

\* One user with the SKUs "A" and "B"; a listing runs while write requests
\* commit.
NextList ==
    \/ Register(<<"a">>, Password(8, "p"), Password(8, "p"), "s1")
    \/ \E session \in Cookies, sku \in {<<"a">>, <<"b">>} :
            Upsert(session, [AnyForm EXCEPT !.sku = sku])
    \/ \E session \in Cookies, sku \in {<<"A">>, <<"B">>} : DeleteProduct(session, sku)
    \/ \E op \in LIST_OPS, session \in Cookies : LsBegin(op, session)
    \/ LsCompute
    \/ LsEnd

SpecList == Init /\ [][NextList]_vars

Listing == rd.pc \in {"list", "list_done"}

\* C21: the list, plan and export read paths complete for every SKU they
\* enumerate.  For each SKU the listing query returned, the compute_for_sku
\* call that follows returns a (product, months, units, metrics) tuple and not
\* None, also when a /delete/product request of the same user for that SKU
\* commits between the listing query and the computation.
C21_ListingCompletes ==
    Listing =>
        /\ rd.exc = ""
        /\ \A k \in 1..Len(rd.computed) : rd.computed[k] # None

\* With no commit between the listing query and the computations every
\* enumerated SKU has its tuple.
C21_CompletesAtRest ==
    (Listing /\ snaps = {Store}) =>
        /\ rd.exc = ""
        /\ \A k \in 1..Len(rd.computed) :
              /\ rd.computed[k] # None
              /\ rd.computed[k][1].prod.sku = rd.skus[k]

\* A listing of two SKUs was computed to its end.
C21_TwoComputed ==
    /\ rd.pc = "list" /\ Len(rd.skus) = 2 /\ rd.i = 3
    /\ \A k \in 1..2 : rd.computed[k] # None

=============================================================================
